---- MODULE Spec2Model ----
(***************************************************************************)
(* The dependency container of the SDK (DependencyContainer): named        *)
(* factories with singleton / lazy metadata, directly set values,          *)
(* synchronous and asynchronous resolution, and the bulk initialization    *)
(* pass with its topological sort.                                         *)
(*                                                                         *)
(* Asynchronous calls (initialize, getAsync) are coroutines: each runs     *)
(* synchronously up to its next `await`, and any other call on the         *)
(* container may run between two such blocks.                              *)
(***************************************************************************)
EXTENDS Integers, Sequences, FiniteSets, TLC

\* ------------------------------------------------------------------ bounds

\* register() calls in one behaviour
MaxRegs == 2
\* invocations of the factories registered under one name
MaxCalls == 2
\* asynchronous calls (initialize passes, getAsync calls) in flight at once
MaxTasks == 2
\* setValue() calls in one behaviour
MaxSets == 1
\* the largest maxAttempts a retry() call is given
MaxAttemptsBound == 3

\* ------------------------------------------------------------------ inputs

Names == {"a", "b"}

\* What a registered factory does when it is invoked:
\*   object   calls container.get() on each of its declared dependencies, as
\*            the SDK client's factories do, then returns a new object
\*   throws   throws
\*   promise  returns a promise that later resolves to a new object
\*   rejects  returns a promise that later rejects
Factories == {"object", "throws", "promise", "rejects"}

\* A factory may also call container.get() on a name it did not declare:
\*   locator  calls container.get() on the other name, then returns a new
\*            object holding the reference it got
Peer(name) == CHOOSE n \in Names : n # name

\* The dependency lists register() is called with.
DepLists == {<<>>} \cup {<<n>> : n \in Names}

\* The value the k-th setValue() call is given: each call passes a new object.
DirectValue(k) == <<"direct", k>>

NoVal == <<"-", 0>>
NoErr == [kind |-> "none", name |-> "-"]
NoDef == [factory |-> "none", singleton |-> FALSE, lazy |-> FALSE, deps |-> <<>>]
Error(k, n) == [kind |-> k, name |-> n]

\* No retry() call was made yet.
NoCall == [status |-> "idle"]

\* No HttpClient request was made yet.
NoRequest == [status |-> "idle"]

\* ------------------------------------------------------------------- state

VARIABLES
    dependencies,           \* Map name -> directly set value (NoVal: absent)
    definitions,            \* Map name -> definition (NoDef: absent)
    defOrder,               \* the insertion order of the keys of definitions
    singletons,             \* Map name -> cached singleton (NoVal: absent)
    initializing,           \* Set of names under construction
    initialized,            \* the initialized flag
    initializationPromise,  \* 0 (null) or the async call whose promise it is
    tasks,                  \* the asynchronous calls in flight, and the settled
                            \* call whose promise initializationPromise holds
    calls,                  \* factory invocations per name
    nregs,                  \* register() calls so far
    nsets,                  \* setValue() calls so far
    retryCall,              \* the retry() call in progress or just settled
    request                 \* the HttpClient request in progress or just settled

vars == <<dependencies, definitions, defOrder, singletons, initializing,
          initialized, initializationPromise, tasks, calls, nregs, nsets,
          retryCall, request>>

\* The variables of the container.
containerVars ==
    <<dependencies, definitions, defOrder, singletons, initializing,
      initialized, initializationPromise, tasks, calls, nregs, nsets>>

HasKey(m, n) == m[n] # NoVal

\* The part of the state a construction reads and writes.
Store == [singletons |-> singletons, initializing |-> initializing, calls |-> calls]

\* What a call returns (ok, val) or throws (err), and the store it leaves.
\* `promise` tells that val is what a returned promise will resolve to.
Ok(st, v) == [st |-> st, ok |-> TRUE, val |-> v, err |-> NoErr, promise |-> FALSE]
Fail(st, k, n) ==
    [st |-> st, ok |-> FALSE, val |-> NoVal, err |-> Error(k, n), promise |-> FALSE]

\* ---------------------------------------------------- synchronous resolution

RECURSIVE createDependencySync(_, _)
RECURSIVE syncDependencies(_, _, _)
RECURSIVE factoryGets(_, _, _, _)
RECURSIVE get(_, _)

\* `definition.dependencies` entry depName must be constructed first
\* (the test of the loops in _createDependency and _createDependencySync).
mustCreate(st, depName) ==
    ~HasKey(dependencies, depName) /\ ~HasKey(st.singletons, depName)

\* Mutant of cacheResult: the constructed value is never cached.
cacheNothing(st, def, name, val) == st

\* Mutant of cacheResult: the constructed value is cached whatever the
\* definition says.
cacheAlways(st, def, name, val) == [st EXCEPT !.singletons[name] = val]

\* definition.singleton decides whether the constructed value is cached.
cacheResult(st, def, name, val) ==
    IF def.singleton THEN [st EXCEPT !.singletons[name] = val] ELSE st

\* The container.get(dep) calls an "object" factory makes, in order; the first
\* one that throws ends the factory.  got holds the references returned so far.
gotDependency(r, deps, i, got) ==
    IF r.ok THEN factoryGets(r.st, deps, i + 1, Append(got, r.val)) ELSE r
factoryGets(st, deps, i, got) ==
    IF i > Len(deps) THEN Ok(st, got)
    ELSE gotDependency(get(st, deps[i]), deps, i, got)

\* The k-th object made by the factory of name: it holds the references the
\* factory was given for its dependencies, as new AuthAPI(httpClient, config).
objectMade(r, name, k) == IF r.ok THEN Ok(r.st, <<name, k, r.val>>) ELSE r

\* The body of the factory registered for name, which makes the k-th object of
\* that name.
factoryBody(st, name, def, k) ==
    CASE def.factory = "throws" -> Fail(st, "FactoryError", name)
      [] def.factory = "object" ->
            objectMade(factoryGets(st, def.deps, 1, <<>>), name, k)
      [] def.factory = "locator" ->
            objectMade(factoryGets(st, <<Peer(name)>>, 1, <<>>), name, k)
      [] OTHER -> [Ok(st, <<name, k, <<>>>>) EXCEPT !.promise = TRUE]

\* definition.factory(), on either path.
invokeFactory(st, name, def) ==
    factoryBody([st EXCEPT !.calls[name] = @ + 1], name, def, st.calls[name] + 1)

\* The loop over definition.dependencies of _createDependencySync.
createdDependencySync(r, deps, i) ==
    IF r.ok THEN syncDependencies(r.st, deps, i + 1) ELSE r
syncDependencies(st, deps, i) ==
    IF i > Len(deps) THEN Ok(st, NoVal)
    ELSE IF mustCreate(st, deps[i])
         THEN createdDependencySync(createDependencySync(st, deps[i]), deps, i)
         ELSE syncDependencies(st, deps, i + 1)

\* Mutant of factoryResultSync: the factory's result is cached before it is
\* tested for being a promise.
factoryResultSyncStores(f, name, def) ==
    IF ~f.ok THEN f
    ELSE IF f.promise
         THEN Fail(cacheResult(f.st, def, name, f.val), "SyncAsyncMismatch", name)
    ELSE Ok(cacheResult(f.st, def, name, f.val), f.val)

\* _createDependencySync: what follows the factory call in the try block.
factoryResultSync(f, name, def) ==
    IF ~f.ok THEN f
    ELSE IF f.promise THEN Fail(f.st, "SyncAsyncMismatch", name)
    ELSE Ok(cacheResult(f.st, def, name, f.val), f.val)
\* _createDependencySync: the try block, after the loop over the dependencies.
trySync(d, name, def) ==
    IF d.ok THEN factoryResultSync(invokeFactory(d.st, name, def), name, def) ELSE d
\* Mutant of finallySync: the name is left in the in-flight set.
finallySyncLeaks(r, name) == r

\* _createDependencySync: the finally block.
finallySync(r, name) == [r EXCEPT !.st.initializing = @ \ {name}]

\* Mutant of createDependencySync: a name that is already under construction
\* is passed over instead of rejected.
createDependencySyncLenient(st, name) ==
    IF name \in st.initializing THEN Ok(st, NoVal)
    ELSE IF definitions[name] = NoDef THEN Fail(st, "NoDefinition", name)
    ELSE finallySync(
            trySync(syncDependencies([st EXCEPT !.initializing = @ \cup {name}],
                                     definitions[name].deps, 1),
                    name, definitions[name]),
            name)

\* _createDependencySync(name)
createDependencySync(st, name) ==
    IF name \in st.initializing THEN Fail(st, "CircularDependency", name)
    ELSE IF definitions[name] = NoDef THEN Fail(st, "NoDefinition", name)
    ELSE finallySync(
            trySync(syncDependencies([st EXCEPT !.initializing = @ \cup {name}],
                                     definitions[name].deps, 1),
                    name, definitions[name]),
            name)

\* Mutant of get: a non-lazy singleton is constructed on demand, whether or
\* not the container is initialized.
getUngated(st, name) ==
    IF HasKey(dependencies, name) THEN Ok(st, dependencies[name])
    ELSE IF HasKey(st.singletons, name) THEN Ok(st, st.singletons[name])
    ELSE IF definitions[name] = NoDef THEN Fail(st, "NotRegistered", name)
    ELSE createDependencySync(st, name)

\* Mutant of get: the singleton cache is looked up before the directly set
\* values.
getCachedFirst(st, name) ==
    IF HasKey(st.singletons, name) THEN Ok(st, st.singletons[name])
    ELSE IF HasKey(dependencies, name) THEN Ok(st, dependencies[name])
    ELSE IF definitions[name] = NoDef THEN Fail(st, "NotRegistered", name)
    ELSE IF ~definitions[name].singleton \/ definitions[name].lazy
         THEN createDependencySync(st, name)
    ELSE IF ~initialized THEN Fail(st, "NotInitialized", name)
    ELSE Fail(st, "PostInitMissing", name)

\* Mutant of get: the initialized flag is not looked at.
getOneError(st, name) ==
    IF HasKey(dependencies, name) THEN Ok(st, dependencies[name])
    ELSE IF HasKey(st.singletons, name) THEN Ok(st, st.singletons[name])
    ELSE IF definitions[name] = NoDef THEN Fail(st, "NotRegistered", name)
    ELSE IF ~definitions[name].singleton \/ definitions[name].lazy
         THEN createDependencySync(st, name)
    ELSE Fail(st, "NotInitialized", name)

\* get(name)
get(st, name) ==
    IF HasKey(dependencies, name) THEN Ok(st, dependencies[name])
    ELSE IF HasKey(st.singletons, name) THEN Ok(st, st.singletons[name])
    ELSE IF definitions[name] = NoDef THEN Fail(st, "NotRegistered", name)
    ELSE IF ~definitions[name].singleton \/ definitions[name].lazy
         THEN createDependencySync(st, name)
    ELSE IF ~initialized THEN Fail(st, "NotInitialized", name)
    ELSE Fail(st, "PostInitMissing", name)

\* Mutant of has: the singleton cache is not looked at.
hasNoCache(name) ==
    \/ HasKey(dependencies, name)
    \/ definitions[name] # NoDef

\* has(name)
has(name) ==
    \/ HasKey(dependencies, name)
    \/ HasKey(singletons, name)
    \/ definitions[name] # NoDef

\* isInitialized()
isInitialized == initialized

\* ---------------------------------------------------------- topological sort

RECURSIVE visit(_, _, _)
RECURSIVE visitDependencies(_, _, _, _)
RECURSIVE visitAll(_, _, _)

InSeq(x, s) == \E i \in 1..Len(s) : s[i] = x

\* visit(name) of topologicalSort, after its loop over the dependencies.
visited(s, name) ==
    IF s.err # NoErr THEN s
    ELSE [s EXCEPT !.temp = @ \ {name},
                   !.visited = @ \cup {name},
                   !.result = Append(@, name)]

\* visit(name) of topologicalSort; s holds visited, temp, result and the error
\* thrown, if any.
visit(s, name, names) ==
    IF s.err # NoErr THEN s
    ELSE IF name \in s.temp
         THEN [s EXCEPT !.err = Error("CircularDependency", name)]
    ELSE IF name \in s.visited THEN s
    ELSE IF definitions[name] # NoDef
         THEN visited(visitDependencies([s EXCEPT !.temp = @ \cup {name}],
                                        definitions[name].deps, 1, names), name)
         ELSE visited([s EXCEPT !.temp = @ \cup {name}], name)

\* Mutant of visitDependencies: the declared dependencies are not followed.
visitNoDependencies(s, deps, i, names) == s

visitDependencies(s, deps, i, names) ==
    IF i > Len(deps) \/ s.err # NoErr THEN s
    ELSE IF InSeq(deps[i], names)
         THEN visitDependencies(visit(s, deps[i], names), deps, i + 1, names)
         ELSE visitDependencies(s, deps, i + 1, names)

RECURSIVE visitAllFromEnd(_, _, _)
\* Mutant of visitAll: the names are visited from the last one to the first.
visitAllFromEnd(s, i, names) ==
    IF i > Len(names) \/ s.err # NoErr THEN s
    ELSE IF names[Len(names) + 1 - i] \in s.visited
         THEN visitAllFromEnd(s, i + 1, names)
    ELSE visitAllFromEnd(visit(s, names[Len(names) + 1 - i], names), i + 1, names)

\* The loop of topologicalSort over names.
visitAll(s, i, names) ==
    IF i > Len(names) \/ s.err # NoErr THEN s
    ELSE IF names[i] \in s.visited THEN visitAll(s, i + 1, names)
    ELSE visitAll(visit(s, names[i], names), i + 1, names)

\* topologicalSort(names): [result, err]
topologicalSort(names) ==
    visitAll([visited |-> {}, temp |-> {}, result |-> <<>>, err |-> NoErr],
             1, names)

\* Mutant of nonLazyDeps: the lazy definitions are not filtered out.
everyDefinition == defOrder

\* The names _doInitialize sorts: the keys of definitions, in insertion order,
\* whose definition is not lazy.
nonLazyDeps == SelectSeq(defOrder, LAMBDA n : ~definitions[n].lazy)

\* --------------------------------------------------- asynchronous resolution
\*
\* An asynchronous call (a task) is suspended at an `await`.  Its stack holds the
\* _createDependency activations it is inside of, innermost last; `ret` is the
\* settled result of the promise the innermost activation (or, with an empty
\* stack, the call's own body) awaits, and is "none" while the innermost
\* activation awaits the promise its factory returned.

NoRet == [state |-> "none", val |-> NoVal, err |-> NoErr]
Top(task) == task.stack[Len(task.stack)]
Pop(stack) == SubSeq(stack, 1, Len(stack) - 1)
Min(S) == CHOOSE x \in S : \A y \in S : x <= y

\* The indices, from i on, of the declared dependencies still to construct.
Pending(st, deps, i) == {j \in i..Len(deps) : mustCreate(st, deps[j])}

\* Mutant of settle: a failed activation empties the singleton cache.
settleRollback(st, task, ok, val, err) ==
    [st   |-> [(IF ok THEN cacheResult(st, Top(task).def, Top(task).name, val)
                      ELSE [st EXCEPT !.singletons = [n \in Names |-> NoVal]])
                  EXCEPT !.initializing = @ \ {Top(task).name}],
     task |-> [task EXCEPT !.stack = Pop(@),
                           !.ret = [state |-> IF ok THEN "ok" ELSE "err",
                                    val |-> val, err |-> err]]]

\* The innermost _createDependency activation ends: its value is cached if its
\* definition is a singleton, `finally` removes its name from the in-flight set,
\* and its promise settles.
settle(st, task, ok, val, err) ==
    [st   |-> [(IF ok THEN cacheResult(st, Top(task).def, Top(task).name, val) ELSE st)
                  EXCEPT !.initializing = @ \ {Top(task).name}],
     task |-> [task EXCEPT !.stack = Pop(@),
                           !.ret = [state |-> IF ok THEN "ok" ELSE "err",
                                    val |-> val, err |-> err]]]

\* _createDependency: what follows the factory call in the try block.
factoryResult(r, task) ==
    IF ~r.ok THEN settle(r.st, task, FALSE, NoVal, r.err)
    ELSE IF r.promise
         THEN [st   |-> r.st,
               task |-> [task EXCEPT !.stack[Len(task.stack)].val = r.val,
                                     !.stack[Len(task.stack)].i =
                                         Len(Top(task).def.deps) + 1,
                                     !.ret = NoRet]]
         ELSE settle(r.st, task, TRUE, r.val, NoErr)

RECURSIVE continueFrame(_, _)
RECURSIVE createDependency(_, _, _)

\* The innermost activation runs on from its loop over definition.dependencies
\* to its next await or its end.
continueFrame(st, task) ==
    IF Pending(st, Top(task).def.deps, Top(task).i) # {}
    THEN createDependency(
            st,
            [task EXCEPT !.stack[Len(task.stack)].i =
                            Min(Pending(st, Top(task).def.deps, Top(task).i)) + 1],
            Top(task).def.deps[Min(Pending(st, Top(task).def.deps, Top(task).i))])
    ELSE factoryResult(invokeFactory(st, Top(task).name, Top(task).def), task)

\* Mutant of createDependency: the name is put in the in-flight set before its
\* definition is looked up, outside the try block.
createDependencyMarked(st, task, name) ==
    IF name \in st.initializing
    THEN [st |-> st,
          task |-> [task EXCEPT !.ret = [state |-> "err", val |-> NoVal,
                                         err |-> Error("CircularDependency", name)]]]
    ELSE IF definitions[name] = NoDef
    THEN [st |-> [st EXCEPT !.initializing = @ \cup {name}],
          task |-> [task EXCEPT !.ret = [state |-> "err", val |-> NoVal,
                                         err |-> Error("NoDefinition", name)]]]
    ELSE continueFrame(
            [st EXCEPT !.initializing = @ \cup {name}],
            [task EXCEPT !.ret = NoRet,
                         !.stack = Append(@, [name |-> name, def |-> definitions[name],
                                              i |-> 1, val |-> NoVal])])

\* Mutant of createDependency: a name that is already under construction is
\* passed over instead of rejected.
createDependencyLenient(st, task, name) ==
    IF name \in st.initializing
    THEN [st |-> st,
          task |-> [task EXCEPT !.ret = [state |-> "ok", val |-> NoVal, err |-> NoErr]]]
    ELSE IF definitions[name] = NoDef
    THEN [st |-> st,
          task |-> [task EXCEPT !.ret = [state |-> "err", val |-> NoVal,
                                         err |-> Error("NoDefinition", name)]]]
    ELSE continueFrame(
            [st EXCEPT !.initializing = @ \cup {name}],
            [task EXCEPT !.ret = NoRet,
                         !.stack = Append(@, [name |-> name, def |-> definitions[name],
                                              i |-> 1, val |-> NoVal])])

\* _createDependency(name), called by the task: it runs to its first await or to
\* its end, and the caller then awaits its promise.
createDependency(st, task, name) ==
    IF name \in st.initializing
    THEN [st |-> st,
          task |-> [task EXCEPT !.ret = [state |-> "err", val |-> NoVal,
                                         err |-> Error("CircularDependency", name)]]]
    ELSE IF definitions[name] = NoDef
    THEN [st |-> st,
          task |-> [task EXCEPT !.ret = [state |-> "err", val |-> NoVal,
                                         err |-> Error("NoDefinition", name)]]]
    ELSE continueFrame(
            [st EXCEPT !.initializing = @ \cup {name}],
            [task EXCEPT !.ret = NoRet,
                         !.stack = Append(@, [name |-> name, def |-> definitions[name],
                                              i |-> 1, val |-> NoVal])])

\* Mutant of initSkips: every sorted name is skipped.
initSkipsAll(name) == TRUE

\* _doInitialize skips a sorted name that has a directly set value.
initSkips(name) == HasKey(dependencies, name)

RECURSIVE initLoopFromEnd(_, _)
\* Mutant of initLoop: the sorted names are taken from the end.
initLoopFromEnd(st, task) ==
    IF task.queue = <<>>
    THEN [st |-> st, task |-> [task EXCEPT !.status = "resolved", !.ret = NoRet]]
    ELSE IF initSkips(task.queue[Len(task.queue)])
         THEN initLoopFromEnd(st, [task EXCEPT !.queue = SubSeq(@, 1, Len(@) - 1)])
         ELSE createDependency(st, [task EXCEPT !.queue = SubSeq(@, 1, Len(@) - 1)],
                               task.queue[Len(task.queue)])

RECURSIVE initLoop(_, _)
\* The loop of _doInitialize over the sorted names, from the names left in
\* task.queue, and the assignment `this.initialized = true` after it.
initLoop(st, task) ==
    IF task.queue = <<>>
    THEN [st |-> st, task |-> [task EXCEPT !.status = "resolved", !.ret = NoRet]]
    ELSE IF initSkips(Head(task.queue))
         THEN initLoop(st, [task EXCEPT !.queue = Tail(@)])
         ELSE createDependency(st, [task EXCEPT !.queue = Tail(@)], Head(task.queue))

TaskIds == 1..MaxTasks

\* An asynchronous call.  batch and steady are history: the names registered as
\* non-lazy singletons when an initialize pass started, and whether no
\* register() or clear() was made since the call started.
NewTask(kind, name) ==
    [kind |-> kind, name |-> name, queue |-> <<>>, stack |-> <<>>, ret |-> NoRet,
     status |-> "pending", val |-> NoVal, err |-> NoErr, batch |-> {}, steady |-> TRUE]
Idle == [NewTask("idle", "-") EXCEPT !.status = "idle"]

\* The ids, among ids, free for a new asynchronous call.
FreeIds(ids) == {t \in ids : tasks[t].status = "idle"}
\* One asynchronous call in flight at a time / up to MaxTasks of them.
OneAtATime == {1}
Overlapping == TaskIds

\* _doInitialize(), from the sorted names to its first await.
sortedDeps(sorted, st, task) ==
    IF sorted.err # NoErr
    THEN [st |-> st, task |-> [task EXCEPT !.status = "rejected", !.err = sorted.err]]
    ELSE initLoop(st, [task EXCEPT !.queue = sorted.result])

\* _doInitialize(), up to its first await.
doInitialize(st) ==
    sortedDeps(topologicalSort(nonLazyDeps), st,
               [NewTask("init", "-") EXCEPT
                   !.batch = {n \in Names : definitions[n] # NoDef
                                            /\ ~definitions[n].lazy
                                            /\ definitions[n].singleton}])

\* Mutant of initialize: the stored promise is not looked at.
initializeAnew(st, ids) ==
    IF initialized
    THEN [starts |-> FALSE, returns |-> 0, st |-> st, task |-> Idle]
    ELSE [starts |-> TRUE, returns |-> Min(FreeIds(ids) \cup {MaxTasks})]
         @@ doInitialize(st)

\* Mutant of initialize: the initialized flag is not looked at.
initializeUnchecked(st, ids) ==
    IF initializationPromise # 0
    THEN [starts |-> FALSE, returns |-> initializationPromise, st |-> st, task |-> Idle]
    ELSE [starts |-> TRUE, returns |-> Min(FreeIds(ids) \cup {MaxTasks})]
         @@ doInitialize(st)

\* initialize(): it returns at once when the container is initialized, returns
\* the stored promise when there is one, and otherwise starts _doInitialize and
\* stores its promise.  `returns` is the call whose promise is returned (0: a
\* promise already resolved), `starts` whether a pass is started.
initialize(st, ids) ==
    IF initialized
    THEN [starts |-> FALSE, returns |-> 0, st |-> st, task |-> Idle]
    ELSE IF initializationPromise # 0
    THEN [starts |-> FALSE, returns |-> initializationPromise, st |-> st, task |-> Idle]
    ELSE [starts |-> TRUE, returns |-> Min(FreeIds(ids) \cup {MaxTasks})]
         @@ doInitialize(st)

\* getAsync(name), up to its first await.
getAsync(st, name) ==
    IF HasKey(dependencies, name)
    THEN [st |-> st, task |-> [NewTask("getAsync", name) EXCEPT
                                  !.status = "resolved", !.val = dependencies[name]]]
    ELSE IF HasKey(st.singletons, name)
    THEN [st |-> st, task |-> [NewTask("getAsync", name) EXCEPT
                                  !.status = "resolved", !.val = st.singletons[name]]]
    ELSE createDependency(st, NewTask("getAsync", name), name)

\* A suspended task runs on from its await to the next one.
resume(st, task) ==
    IF task.ret.state = "none"
    THEN \* the promise the innermost activation's factory returned settles
         IF Top(task).def.factory = "promise"
         THEN settle(st, task, TRUE, Top(task).val, NoErr)
         ELSE settle(st, task, FALSE, NoVal, Error("FactoryError", Top(task).name))
    ELSE IF task.stack # <<>>
    THEN IF task.ret.state = "err"
         THEN settle(st, task, FALSE, NoVal, task.ret.err)
         ELSE continueFrame(st, [task EXCEPT !.ret = NoRet])
    ELSE IF task.ret.state = "err"
    THEN [st |-> st, task |-> [task EXCEPT !.status = "rejected", !.err = task.ret.err,
                                           !.ret = NoRet]]
    ELSE IF task.kind = "getAsync"
    THEN [st |-> st, task |-> [task EXCEPT !.status = "resolved", !.val = task.ret.val,
                                           !.ret = NoRet]]
    ELSE initLoop(st, [task EXCEPT !.ret = NoRet])

\* ------------------------------------------------------------------ actions

WithinCalls(st) == \A n \in Names : st.calls[n] <= MaxCalls

Init ==
    /\ dependencies = [n \in Names |-> NoVal]
    /\ definitions = [n \in Names |-> NoDef]
    /\ defOrder = <<>>
    /\ singletons = [n \in Names |-> NoVal]
    /\ initializing = {}
    /\ initialized = FALSE
    /\ initializationPromise = 0
    /\ tasks = [t \in TaskIds |-> Idle]
    /\ calls = [n \in Names |-> 0]
    /\ nregs = 0
    /\ nsets = 0
    /\ retryCall = NoCall
    /\ request = NoRequest

\* Mutant of Register: an existing definition is kept.
RegisterKeepsFirst(name, factory, singleton, lazy, deps) ==
    /\ nregs < MaxRegs
    /\ nregs' = nregs + 1
    /\ definitions' = IF definitions[name] # NoDef THEN definitions
                      ELSE [definitions EXCEPT ![name] =
                              [factory |-> factory, singleton |-> singleton,
                               lazy |-> lazy, deps |-> deps]]
    /\ defOrder' = IF definitions[name] = NoDef THEN Append(defOrder, name) ELSE defOrder
    /\ tasks' = [t \in TaskIds |->
                    IF tasks[t].status = "idle" THEN tasks[t]
                    ELSE [tasks[t] EXCEPT !.steady = FALSE]]
    /\ UNCHANGED <<dependencies, singletons, initializing, initialized,
                   initializationPromise, calls, nsets,
                   retryCall, request>>

\* register(name, factory, {singleton, lazy, dependencies})
Register(name, factory, singleton, lazy, deps) ==
    /\ nregs < MaxRegs
    /\ nregs' = nregs + 1
    /\ definitions' = [definitions EXCEPT ![name] =
            [factory |-> factory, singleton |-> singleton, lazy |-> lazy, deps |-> deps]]
    /\ defOrder' = IF definitions[name] = NoDef THEN Append(defOrder, name) ELSE defOrder
    /\ tasks' = [t \in TaskIds |->
                    IF tasks[t].status = "idle" THEN tasks[t]
                    ELSE [tasks[t] EXCEPT !.steady = FALSE]]
    /\ UNCHANGED <<dependencies, singletons, initializing, initialized,
                   initializationPromise, calls, nsets,
                   retryCall, request>>

\* setValue(name, value)
SetValue(name) ==
    /\ nsets < MaxSets
    /\ nsets' = nsets + 1
    /\ dependencies' = [dependencies EXCEPT ![name] = DirectValue(nsets + 1)]
    /\ UNCHANGED <<definitions, defOrder, singletons, initializing, initialized,
                   initializationPromise, tasks, calls, nregs,
                   retryCall, request>>

\* The state after a synchronous call that ended as r.
Returned(r) ==
    /\ WithinCalls(r.st)
    /\ singletons' = r.st.singletons
    /\ initializing' = r.st.initializing
    /\ calls' = r.st.calls

\* get(name), called from outside any factory
Get(name) ==
    /\ Returned(get(Store, name))
    /\ UNCHANGED <<dependencies, definitions, defOrder, initialized,
                   initializationPromise, tasks, nregs, nsets,
                   retryCall, request>>

\* The state after task t has run one block.  A settled call is forgotten,
\* unless it is the one whose promise the container holds (`keep`).
Ran(r, t, keep) ==
    /\ WithinCalls(r.st)
    /\ singletons' = r.st.singletons
    /\ initializing' = r.st.initializing
    /\ calls' = r.st.calls
    /\ initialized' = IF r.task.kind = "init" /\ r.task.status = "resolved"
                      THEN TRUE ELSE initialized
    /\ tasks' = [tasks EXCEPT ![t] = IF r.task.status = "pending" \/ keep
                                     THEN r.task ELSE Idle]

\* initialize()
Called(r, ids) ==
    IF r.starts
    THEN /\ FreeIds(ids) # {}
         /\ Ran(r, r.returns, TRUE)
         /\ initializationPromise' = r.returns
    ELSE UNCHANGED <<singletons, initializing, calls, initialized, tasks,
                     initializationPromise>>

Initialize(ids) ==
    /\ Called(initialize(Store, ids), ids)
    /\ UNCHANGED <<dependencies, definitions, defOrder, nregs, nsets,
                   retryCall, request>>

\* getAsync(name)
GetAsync(name, ids) ==
    /\ FreeIds(ids) # {}
    /\ Ran(getAsync(Store, name), Min(FreeIds(ids)), FALSE)
    /\ UNCHANGED <<dependencies, definitions, defOrder, initializationPromise,
                   nregs, nsets,
                   retryCall, request>>

\* A suspended asynchronous call is resumed.
Resume(t) ==
    /\ tasks[t].status = "pending"
    /\ Ran(resume(Store, tasks[t]), t, initializationPromise = t)
    /\ UNCHANGED <<dependencies, definitions, defOrder, initializationPromise,
                   nregs, nsets,
                   retryCall, request>>

\* has(name) and isInitialized(): queries, which assign nothing.
Has(name) ==
    /\ has(name) \in BOOLEAN
    /\ isInitialized \in BOOLEAN
    /\ UNCHANGED vars

\* Mutant of Clear: the singleton cache is not emptied.
ClearKeepsSingletons ==
    /\ dependencies' = [n \in Names |-> NoVal]
    /\ definitions' = [n \in Names |-> NoDef]
    /\ defOrder' = <<>>
    /\ initializing' = {}
    /\ initialized' = FALSE
    /\ initializationPromise' = 0
    /\ tasks' = [t \in TaskIds |->
                    IF tasks[t].status = "pending"
                    THEN [tasks[t] EXCEPT !.batch = {}, !.steady = FALSE]
                    ELSE Idle]
    /\ UNCHANGED <<singletons, calls, nregs, nsets,
                   retryCall, request>>

\* clear().  The promises of the calls in flight are out of the container's
\* hands from here on.
Clear ==
    /\ dependencies' = [n \in Names |-> NoVal]
    /\ definitions' = [n \in Names |-> NoDef]
    /\ defOrder' = <<>>
    /\ singletons' = [n \in Names |-> NoVal]
    /\ initializing' = {}
    /\ initialized' = FALSE
    /\ initializationPromise' = 0
    /\ tasks' = [t \in TaskIds |->
                    IF tasks[t].status = "pending"
                    THEN [tasks[t] EXCEPT !.batch = {}, !.steady = FALSE]
                    ELSE Idle]
    /\ UNCHANGED <<calls, nregs, nsets,
                   retryCall, request>>

\* Names are interchangeable: the first name registered or set is called "a".
FirstNames == IF nregs = 0 /\ nsets = 0 THEN {"a"} ELSE Names

\* The factories of the specifications that also set values or overlap calls.
PlainFactories == {"object", "promise"}

\* Every call but setValue(), with one asynchronous call in flight at a time.
Next ==
    \/ \E name \in FirstNames, factory \in Factories, singleton \in BOOLEAN,
          lazy \in BOOLEAN, deps \in DepLists :
            Register(name, factory, singleton, lazy, deps)
    \/ \E name \in Names : Get(name)
    \/ \E name \in Names : Has(name)
    \/ \E name \in Names : GetAsync(name, OneAtATime)
    \/ Initialize(OneAtATime)
    \/ \E t \in TaskIds : Resume(t)
    \/ Clear

Spec == Init /\ [][Next]_vars

\* Every call, setValue() included, on factories that do not fail.
NextValues ==
    \/ \E name \in FirstNames, factory \in PlainFactories, singleton \in BOOLEAN,
          lazy \in BOOLEAN, deps \in DepLists :
            Register(name, factory, singleton, lazy, deps)
    \/ \E name \in FirstNames : SetValue(name)
    \/ \E name \in Names : Get(name)
    \/ \E name \in Names : Has(name)
    \/ \E name \in Names : GetAsync(name, OneAtATime)
    \/ Initialize(OneAtATime)
    \/ \E t \in TaskIds : Resume(t)
    \/ Clear

SpecValues == Init /\ [][NextValues]_vars

\* Asynchronous calls that overlap, with neither setValue() nor clear().
NextOverlap ==
    \/ \E name \in FirstNames, factory \in PlainFactories, singleton \in BOOLEAN,
          lazy \in BOOLEAN, deps \in DepLists :
            Register(name, factory, singleton, lazy, deps)
    \/ \E name \in Names : Get(name)
    \/ \E name \in Names : GetAsync(name, Overlapping)
    \/ Initialize(Overlapping)
    \/ \E t \in TaskIds : Resume(t)

SpecOverlap == Init /\ [][NextOverlap]_vars

\* The factories of the specification of synchronous resolution.
SyncFactories == {"object", "locator", "throws"}

\* Synchronous calls only, on factories that call back into the container.
NextSync ==
    \/ \E name \in FirstNames, factory \in SyncFactories, singleton \in BOOLEAN,
          lazy \in BOOLEAN, deps \in DepLists :
            Register(name, factory, singleton, lazy, deps)
    \/ \E name \in FirstNames : SetValue(name)
    \/ \E name \in Names : Get(name)
    \/ Clear

SpecSync == Init /\ [][NextSync]_vars

\* The registrations the specification of the construction order starts from:
\* up to three names, each with up to two declared dependencies.
SortNames == {"a", "b", "c"}
SortDepLists ==
    {<<>>} \cup {<<n>> : n \in SortNames}
           \cup {<<n, m>> : n \in SortNames, m \in SortNames}
SortDefinitions ==
    {NoDef} \cup [factory : {"object"}, singleton : {TRUE}, lazy : BOOLEAN,
                  deps : SortDepLists]

\* The orders in which the names of S can have been registered.
Orders(S) ==
    {o \in [1..Cardinality(S) -> S] : \A i, j \in 1..Cardinality(S) :
                                          o[i] = o[j] => i = j}

\* The container after any sequence of register() calls on three names.
InitSort ==
    /\ definitions \in [SortNames -> SortDefinitions]
    /\ defOrder \in Orders({n \in SortNames : definitions[n] # NoDef})
    /\ dependencies = [n \in SortNames |-> NoVal]
    /\ singletons = [n \in SortNames |-> NoVal]
    /\ initializing = {}
    /\ initialized = FALSE
    /\ initializationPromise = 0
    /\ tasks = [t \in TaskIds |-> Idle]
    /\ calls = [n \in SortNames |-> 0]
    /\ nregs = 0
    /\ nsets = 0
    /\ retryCall = NoCall
    /\ request = NoRequest

\* initialize() on these registrations, run to its end.
NextSort ==
    \/ Initialize(OneAtATime)
    \/ \E t \in TaskIds : Resume(t)

SpecSort == InitSort /\ [][NextSort]_vars

\* ------------------------------------------------------- retry(fn, options)
\*
\* fn's k-th invocation either throws, or returns a promise that later resolves
\* to Value(k) or rejects with Err(k).

Err(k) == <<"error", k>>
Value(k) == <<"value", k>>
\* `let lastError` before any assignment, and the result of a call not resolved
Undefined == <<"undefined", 0>>

\* options.maxAttempts, delay, backoff and whether onRetry is given
AttemptCounts == 0..MaxAttemptsBound
Delays == {10, 1000}

\* The call at its first loop test: opts and the loop variable.
startRetry(maxAttempts, delay, backoff, onRetry) ==
    [status |-> "running", maxAttempts |-> maxAttempts, delay |-> delay,
     backoff |-> backoff, onRetry |-> onRetry, attempt |-> 1, fnCalls |-> 0,
     lastError |-> Undefined, result |-> Undefined, err |-> Undefined,
     sleeping |-> 0, log |-> <<>>]

\* fn() is invoked by the iteration for rc.attempt.
invoked(rc) ==
    [rc EXCEPT !.fnCalls = @ + 1,
               !.log = Append(@, <<"fn", rc.attempt, Undefined>>)]

\* The delay before the next attempt.
backoffDelay(rc) ==
    IF rc.backoff THEN rc.delay * 2 ^ (rc.attempt - 1) ELSE rc.delay

RECURSIVE iterate(_, _)

\* Mutant of caught: the test of the catch block is attempt <= maxAttempts.
caughtOffByOne(rc, error) ==
    IF rc.attempt <= rc.maxAttempts
    THEN [rc EXCEPT !.lastError = error,
                    !.log = IF rc.onRetry
                            THEN Append(@, <<"onRetry", rc.attempt, error>>)
                            ELSE @,
                    !.sleeping = backoffDelay(rc),
                    !.status = "sleeping"]
    ELSE iterate([rc EXCEPT !.lastError = error, !.attempt = @ + 1], FALSE)

\* The catch block, up to `await sleep(delay)` or through the end of the loop
\* body to the next loop test.
caught(rc, error) ==
    IF rc.attempt < rc.maxAttempts
    THEN [rc EXCEPT !.lastError = error,
                    !.log = IF rc.onRetry
                            THEN Append(@, <<"onRetry", rc.attempt, error>>)
                            ELSE @,
                    !.sleeping = backoffDelay(rc),
                    !.status = "sleeping"]
    ELSE iterate([rc EXCEPT !.lastError = error, !.attempt = @ + 1], FALSE)

\* Mutant of iterate: the loop runs while attempt <= maxAttempts + 1.
iterateOnceMore(rc, throws) ==
    IF rc.attempt <= rc.maxAttempts + 1
    THEN IF throws
         THEN caught(invoked(rc), Err(rc.fnCalls + 1))
         ELSE [invoked(rc) EXCEPT !.status = "awaitFn"]
    ELSE [rc EXCEPT !.status = "rejected", !.err = rc.lastError]

\* The loop test and the try block up to `await fn()`, then `throw lastError`
\* when the loop has ended.  throws: this invocation of fn throws.
iterate(rc, throws) ==
    IF rc.attempt <= rc.maxAttempts
    THEN IF throws
         THEN caught(invoked(rc), Err(rc.fnCalls + 1))
         ELSE [invoked(rc) EXCEPT !.status = "awaitFn"]
    ELSE [rc EXCEPT !.status = "rejected", !.err = rc.lastError]

\* retry(fn, {maxAttempts, delay, backoff, onRetry}), when no call is running
Retry(maxAttempts, delay, backoff, onRetry, throws) ==
    /\ retryCall.status \in {"idle", "resolved", "rejected"}
    /\ retryCall' = iterate(startRetry(maxAttempts, delay, backoff, onRetry), throws)
    /\ UNCHANGED <<containerVars, request>>

\* The promise fn returned resolves: `return await fn()`.
FnResolves ==
    /\ retryCall.status = "awaitFn"
    /\ retryCall' = [retryCall EXCEPT !.status = "resolved",
                                      !.result = Value(retryCall.fnCalls)]
    /\ UNCHANGED <<containerVars, request>>

\* The promise fn returned rejects.
FnRejects ==
    /\ retryCall.status = "awaitFn"
    /\ retryCall' = caught(retryCall, Err(retryCall.fnCalls))
    /\ UNCHANGED <<containerVars, request>>

\* sleep(delay) resolves and the loop goes on to the next attempt.
SleepEnds(throws) ==
    /\ retryCall.status = "sleeping"
    /\ retryCall' = iterate([retryCall EXCEPT !.attempt = @ + 1, !.sleeping = 0],
                            throws)
    /\ UNCHANGED <<containerVars, request>>

NextRetry ==
    \/ \E maxAttempts \in AttemptCounts, delay \in Delays, backoff \in BOOLEAN,
          onRetry \in BOOLEAN, throws \in BOOLEAN :
            Retry(maxAttempts, delay, backoff, onRetry, throws)
    \/ FnResolves
    \/ FnRejects
    \/ \E throws \in BOOLEAN : SleepEnds(throws)

SpecRetry == Init /\ [][NextRetry]_vars

\* ------------------------------------------------------- HttpClient.request
\*
\* The transport (axios.request) returns a promise; it resolves to a response
\* or rejects with an error of one of these kinds:
\*   401, 429      error.response.status
\*   ECONNABORTED  error.code
\*   network       a message isRetryableError() recognises
\*   other         anything else
TransportErrors == {"401", "429", "ECONNABORTED", "network", "other"}
TransportError(kind, k) == <<kind, k>>

\* The largest retryAttempts the configuration schema accepts, and the values
\* it accepts.
MaxRetryAttempts == 5
RetryAttempts == 0..MaxRetryAttempts
\* config.retryDelay
RetryDelays == {1000}

\* The catch block of request: the error it throws for the error it caught.
surfaced(error) ==
    IF error = Undefined THEN "TypeError"
    ELSE CASE error[1] = "401" -> "AuthenticationError"
           [] error[1] = "429" -> "RateLimitError"
           [] error[1] = "ECONNABORTED" -> "TimeoutError"
           [] OTHER -> "NetworkError"

\* request, after `await retry(...)` when the retry() call has settled as rc:
\* it returns response.data or throws from its catch block.
requestAfter(rc) ==
    CASE rc.status = "resolved" ->
            [status |-> "returned", data |-> rc.result, error |-> "none"]
      [] rc.status = "rejected" ->
            [status |-> "threw", data |-> Undefined, error |-> surfaced(rc.err)]
      [] OTHER -> [status |-> "pending", data |-> Undefined, error |-> "none"]

\* The retry() call and the request move on together to rc.
Requested(rc) ==
    /\ retryCall' = rc
    /\ request' = requestAfter(rc)
    /\ UNCHANGED containerVars

\* get/post/put/patch/delete, when no request is in progress: request calls
\* retry() with maxAttempts: config.retryAttempts, delay: config.retryDelay
\* and an onRetry callback; backoff keeps its default.
Request(retryAttempts, retryDelay) ==
    /\ request.status # "pending"
    /\ Requested(iterate(startRetry(retryAttempts, retryDelay, TRUE, TRUE), FALSE))

\* The transport's promise resolves to a response.
TransportResponds ==
    /\ request.status = "pending"
    /\ retryCall.status = "awaitFn"
    /\ Requested([retryCall EXCEPT !.status = "resolved",
                                   !.result = Value(retryCall.fnCalls)])

\* The transport's promise rejects.
TransportFails(kind) ==
    /\ request.status = "pending"
    /\ retryCall.status = "awaitFn"
    /\ Requested(caught(retryCall, TransportError(kind, retryCall.fnCalls)))

\* The delay between two attempts ends.
RetryDelayEnds ==
    /\ request.status = "pending"
    /\ retryCall.status = "sleeping"
    /\ Requested(iterate([retryCall EXCEPT !.attempt = @ + 1, !.sleeping = 0],
                         FALSE))

NextHttp ==
    \/ \E retryAttempts \in RetryAttempts, retryDelay \in RetryDelays :
            Request(retryAttempts, retryDelay)
    \/ TransportResponds
    \/ \E kind \in TransportErrors : TransportFails(kind)
    \/ RetryDelayEnds

SpecHttp == Init /\ [][NextHttp]_vars

\* --------------------------------------------------------------- properties

\* Task t is an initialize pass that ran in this step (it was started, or it was
\* resumed from an await) with no register() or clear() since it started.
PassStep(t) ==
    /\ tasks'[t].kind = "init"
    /\ tasks'[t].steady
    /\ tasks'[t] # tasks[t]

\* The pass whose promise the container holds.
HeldPass(t) == initializationPromise = t /\ tasks[t].kind = "init"

\* No asynchronous call in flight has seen a register() or clear().
AllSteady == \A t \in TaskIds : tasks[t].steady

NonLazy(n) == definitions[n] # NoDef /\ ~definitions[n].lazy
NonLazySingleton(n) == NonLazy(n) /\ definitions[n].singleton

\* a declares b
Declares(a, b) == definitions[a] # NoDef /\ InSeq(b, definitions[a].deps)

\* a non-lazy definition that declares b, a non-lazy definition
NonLazyEdge(a, b) == NonLazy(a) /\ NonLazy(b) /\ Declares(a, b)

RECURSIVE CycleReachesIn(_, _, _)
\* b is reached from a in at most k steps of NonLazyEdge
CycleReachesIn(a, b, k) ==
    \/ NonLazyEdge(a, b)
    \/ k > 1 /\ \E c \in Names : NonLazyEdge(a, c) /\ CycleReachesIn(c, b, k - 1)

\* The non-lazy definitions declare each other in a cycle.
HasCycle == \E n \in Names : CycleReachesIn(n, n, Cardinality(Names))

RECURSIVE DeclaresIn(_, _, _)
\* b is reached from a in at most k steps of Declares
DeclaresIn(a, b, k) ==
    \/ Declares(a, b)
    \/ k > 1 /\ \E c \in Names : Declares(a, c) /\ DeclaresIn(c, b, k - 1)

\* Some non-lazy definition declares n, directly or through other definitions.
NeededByPass(n) ==
    \E a \in Names : NonLazy(a) /\ DeclaresIn(a, n, Cardinality(Names))

\* C1 (as the claim states it; the code violates it): once a name defined as a
\* singleton, with no directly set value, is in the singleton cache, no call
\* other than a register() of that name or a clear() invokes its factory again
\* or replaces the cached reference.
C1_SingletonIdentity ==
    [][\A n \in Names :
          ( /\ definitions[n] # NoDef /\ definitions[n].singleton
            /\ definitions'[n] = definitions[n]
            /\ ~HasKey(dependencies, n)
            /\ HasKey(singletons, n)
            /\ AllSteady )
          => (calls'[n] = calls[n] /\ singletons'[n] = singletons[n])]_vars

\* C2: in a step of an initialize pass that invokes the factory of a non-lazy
\* name A, every non-lazy name B that A declares has had its factory completed
\* and is cached if it is a singleton, whatever the registration order; and the
\* pass never fails with the gating errors of get().
C2_DependencyOrder ==
    [][\A t \in TaskIds : PassStep(t) =>
          /\ \A A \in Names, B \in Names :
                (NonLazyEdge(A, B) /\ calls'[A] > calls[A]) =>
                    /\ calls'[B] > 0
                    /\ definitions[B].singleton => HasKey(singletons', B)
          /\ tasks'[t].ret.err.kind \notin {"NotInitialized", "PostInitMissing"}
          /\ tasks'[t].err.kind \notin {"NotInitialized", "PostInitMissing"}]_vars

\* C2 witness: a pass resolved with A registered before the singleton B it
\* declares and calls get() on, both constructed.
C2_Witness ==
    \E t \in TaskIds :
        /\ HeldPass(t) /\ tasks[t].status = "resolved" /\ tasks[t].steady
        /\ defOrder = <<"a", "b">>
        /\ definitions["a"].factory = "object" /\ definitions["a"].deps = <<"b">>
        /\ NonLazySingleton("a") /\ NonLazySingleton("b")
        /\ HasKey(singletons, "a") /\ HasKey(singletons, "b")

\* C3: the initialize() call that starts a pass while the non-lazy definitions
\* declare each other in a cycle returns a promise rejected with the
\* circular-dependency error, has invoked no factory, and leaves initialized
\* false.
C3_CycleDetection ==
    [][(initializationPromise = 0 /\ initializationPromise' # 0 /\ HasCycle) =>
          /\ tasks'[initializationPromise'].status = "rejected"
          /\ tasks'[initializationPromise'].err.kind = "CircularDependency"
          /\ ~initialized'
          /\ calls' = calls]_vars

\* C3 witness: the pass over A declaring B and B declaring A was rejected.
C3_Witness ==
    \E t \in TaskIds :
        /\ HeldPass(t) /\ tasks[t].status = "rejected"
        /\ tasks[t].err.kind = "CircularDependency"
        /\ NonLazyEdge("a", "b") /\ NonLazyEdge("b", "a")

\* Before any initialize() call (since construction or the last clear()).
BeforeInitialize == initializationPromise = 0 /\ ~initialized

\* C4 (as the claim states it; refuted): before any initialize() call, get(name)
\* of a non-lazy singleton with no directly set value throws NotInitialized,
\* whatever calls preceded it.
C4_GatingBefore_Original ==
    \A n \in Names :
        (BeforeInitialize /\ NonLazySingleton(n) /\ ~HasKey(dependencies, n))
        => get(Store, n).err.kind = "NotInitialized"

\* C4 (amended): before any initialize() call, get(name) of a non-lazy singleton
\* with no directly set value that is not in the singleton cache throws
\* NotInitialized and invokes no factory.
C4_GatingBefore ==
    \A n \in Names :
        ( /\ BeforeInitialize /\ NonLazySingleton(n)
          /\ ~HasKey(dependencies, n) /\ ~HasKey(singletons, n) )
        => get(Store, n) = Fail(Store, "NotInitialized", n)

\* C4 witness: a non-lazy singleton not yet cached, after another name was
\* constructed by getAsync().
C4_Witness ==
    /\ BeforeInitialize
    /\ NonLazySingleton("b") /\ ~HasKey(singletons, "b")
    /\ HasKey(singletons, "a")

C7_ConcurrentInitialize ==
    /\ Cardinality({t \in TaskIds : tasks[t].kind = "init"}) <= 1
    /\ \A t \in TaskIds :
          (HeldPass(t) /\ tasks[t].status = "pending") =>
              /\ ~initialize(Store, Overlapping).starts
              /\ initialize(Store, Overlapping).returns = t
              /\ initialize(Store, Overlapping).st = Store

\* C7 witness: a pass is in flight, a factory invoked, and a slot is free for
\* another asynchronous call.
C7_Witness ==
    \E t \in TaskIds :
        /\ HeldPass(t) /\ tasks[t].status = "pending"
        /\ FreeIds(Overlapping) # {}
        /\ \E n \in Names : calls[n] > 0

\* C8 (as the claim states it; the code violates it): after the pass the
\* container holds was rejected because a factory failed, an initialize() call
\* starts construction again.
C8_RetryAfterFailure ==
    \A t \in TaskIds :
        ( /\ HeldPass(t) /\ tasks[t].status = "rejected"
          /\ tasks[t].err.kind = "FactoryError" )
        => initialize(Store, OneAtATime).starts

\* C9: a step of an initialize pass in which the pass is rejected leaves
\* initialized false, and no step of a pass removes an entry from the singleton
\* cache.
C9_NoRollback ==
    [][\A t \in TaskIds : PassStep(t) =>
          /\ tasks'[t].status = "rejected" => ~initialized'
          /\ \A n \in Names : HasKey(singletons, n) => HasKey(singletons', n)]_vars

\* C9 witness: a pass was rejected by a failing factory after it had
\* constructed a singleton, which is still cached.
C9_Witness ==
    \E t \in TaskIds, n \in Names :
        /\ HeldPass(t) /\ tasks[t].status = "rejected" /\ tasks[t].steady
        /\ tasks[t].err.kind = "FactoryError"
        /\ n \in tasks[t].batch /\ HasKey(singletons, n)
        /\ calls[n] = 1
        /\ ~initialized

\* C10: while name x has a directly set value v, get(x) and getAsync(x) return
\* v and invoke no factory, whether or not x has a definition or a cached
\* singleton.
C10_DirectValuePrecedence ==
    \A x \in Names : HasKey(dependencies, x) =>
        /\ get(Store, x) = Ok(Store, dependencies[x])
        /\ getAsync(Store, x).st = Store
        /\ getAsync(Store, x).task.status = "resolved"
        /\ getAsync(Store, x).task.val = dependencies[x]

\* C10 witness: x has a directly set value, a definition and a cached singleton.
C10_Witness ==
    \E x \in Names :
        /\ HasKey(dependencies, x)
        /\ definitions[x] # NoDef
        /\ HasKey(singletons, x)

Transient(n) == definitions[n] # NoDef /\ ~definitions[n].singleton

\* C11 (as the claim states it; refuted): get(name) of a name whose definition
\* is transient and that has no directly set value, when it returns, has
\* invoked the name's factory exactly once and has left the name's entry of the
\* singleton cache alone, whatever was done to the container before.
C11_TransientFreshness_Original ==
    \A n \in Names :
        (Transient(n) /\ ~HasKey(dependencies, n) /\ get(Store, n).ok)
        => /\ get(Store, n).st.calls[n] = calls[n] + 1
           /\ get(Store, n).st.singletons[n] = singletons[n]

\* C11 (amended): get(name) of a name whose definition is transient and that
\* has neither a directly set value nor an entry in the singleton cache invokes
\* the name's factory at most once, and exactly once when it returns; it then
\* returns the object that invocation made, and the name is still not in the
\* singleton cache.
C11_TransientFreshness ==
    \A n \in Names :
        (Transient(n) /\ ~HasKey(dependencies, n) /\ ~HasKey(singletons, n))
        => /\ get(Store, n).st.calls[n] <= calls[n] + 1
           /\ ~HasKey(get(Store, n).st.singletons, n)
           /\ get(Store, n).ok =>
                 /\ get(Store, n).st.calls[n] = calls[n] + 1
                 /\ get(Store, n).val[1] = n
                 /\ get(Store, n).val[2] = calls[n] + 1

\* C11 witness: a transient name was constructed twice, is not cached, and a
\* third get() of it would return.
C11_Witness ==
    \E n \in Names :
        /\ Transient(n) /\ ~HasKey(dependencies, n) /\ ~HasKey(singletons, n)
        /\ calls[n] = 2
        /\ get(Store, n).ok

\* C12: in the state a clear() call leaves, has(name) is false and get(name)
\* throws the not-registered error for every name, and isInitialized() is
\* false.
C12_ClearPristine ==
    [][Clear =>
          (\A n \in Names :
              /\ ~has(n)
              /\ get(Store, n) = Fail(Store, "NotRegistered", n)
              /\ ~isInitialized)']_vars

\* C12 witness: nothing is registered, set or cached although a register(), a
\* setValue() and a factory invocation were made: a clear() has removed them.
C12_Witness ==
    /\ \A n \in Names : ~has(n)
    /\ ~isInitialized
    /\ nregs > 0 /\ nsets > 0
    /\ \E n \in Names : calls[n] > 0

\* C13 (as the claim states it; the code violates it): after the pass the
\* container holds has resolved, with no register() since it started, every
\* cached object whose factory called get() on its declared dependencies holds,
\* for each dependency that is a singleton, the reference get() returns for it
\* now.
C13_SharedInstance ==
    \A t \in TaskIds :
        (HeldPass(t) /\ tasks[t].status = "resolved" /\ tasks[t].steady) =>
            \A A \in Names :
                ( /\ HasKey(singletons, A) /\ ~HasKey(dependencies, A)
                  /\ definitions[A] # NoDef /\ definitions[A].factory = "object"
                  /\ Len(singletons[A][3]) = Len(definitions[A].deps) )
                => \A i \in 1..Len(definitions[A].deps) :
                      ( /\ definitions[definitions[A].deps[i]] # NoDef
                        /\ definitions[definitions[A].deps[i]].singleton )
                      => singletons[A][3][i] = get(Store, definitions[A].deps[i]).val

\* C14: once the container is initialized, an initialize() call returns a
\* resolved promise at once: it starts no pass, invokes no factory and changes
\* neither the singleton cache nor the in-flight set, whatever was registered
\* since the pass resolved.
C14_InitializeNoOp ==
    initialized =>
        /\ ~initialize(Store, OneAtATime).starts
        /\ initialize(Store, OneAtATime).returns = 0
        /\ initialize(Store, OneAtATime).st = Store

\* C14 witness: the pass resolved, and a non-lazy singleton registered since
\* then has not been constructed.
C14_Witness ==
    \E t \in TaskIds, n \in Names :
        /\ HeldPass(t) /\ tasks[t].status = "resolved" /\ ~tasks[t].steady
        /\ initialized
        /\ NonLazySingleton(n) /\ ~HasKey(singletons, n) /\ n \notin tasks[t].batch

InValueMap(n) == dependencies[n] # NoVal
InSingletonCache(n) == singletons[n] # NoVal
InDefinitions(n) == definitions[n] # NoDef

\* C15: has(name) is true exactly when name is in the value map, in the
\* singleton cache or in the definition registry.  (has() assigns nothing: the
\* action Has leaves every variable unchanged.)
C15_Has ==
    \A n \in Names :
        has(n) <=> (InValueMap(n) \/ InSingletonCache(n) \/ InDefinitions(n))

\* C15 witness: has() is true of a name that is in the singleton cache only,
\* and false of another name.
C15_Witness ==
    \E n \in Names, m \in Names :
        /\ has(n) /\ InSingletonCache(n) /\ ~InValueMap(n) /\ ~InDefinitions(n)
        /\ ~has(m)

\* C16: for a name with no directly set value, no singleton cache entry and no
\* definition, get(name) throws the not-registered error and getAsync(name)
\* returns a promise that rejects; neither invokes a factory nor changes the
\* singleton cache or the in-flight set.
C16_UnknownName ==
    \A n \in Names : ~has(n) =>
        /\ get(Store, n) = Fail(Store, "NotRegistered", n)
        /\ getAsync(Store, n).st = Store
        /\ getAsync(Store, n).task.stack = <<>>
        /\ getAsync(Store, n).task.ret.state = "err"
        /\ resume(Store, getAsync(Store, n).task).st = Store
        /\ resume(Store, getAsync(Store, n).task).task.status = "rejected"

\* C16 witness: a getAsync() call on an unknown name is about to reject, while
\* another name is known to the container.
C16_Witness ==
    \E t \in TaskIds :
        /\ tasks[t].kind = "getAsync" /\ tasks[t].status = "pending"
        /\ tasks[t].ret.err.kind = "NoDefinition"
        /\ ~has(tasks[t].name)
        /\ \E n \in Names : has(n)

\* The attempts made so far by the retry() call, in the order fn was invoked.
FnLog == SelectSeq(retryCall.log, LAMBDA e : e[1] = "fn")

\* C17: a retry() call invokes fn for attempts 1, 2, ... in turn and never more
\* than maxAttempts times; when it resolves, it resolves to the result of the
\* last invocation made (nothing is invoked after a success); when it rejects
\* after maxAttempts >= 1 attempts, all of them were made and it rejects with
\* the error of the last one.  With maxAttempts = 0 it rejects without
\* invoking fn.
C17_Retry ==
    retryCall.status # "idle" =>
        /\ retryCall.fnCalls <= retryCall.maxAttempts
        /\ Len(FnLog) = retryCall.fnCalls
        /\ \A i \in 1..Len(FnLog) : FnLog[i][2] = i
        /\ retryCall.status = "resolved"
              => retryCall.result = Value(retryCall.fnCalls)
        /\ retryCall.status = "rejected"
              => /\ retryCall.fnCalls = retryCall.maxAttempts
                 /\ retryCall.maxAttempts >= 1
                       => retryCall.err = Err(retryCall.fnCalls)

\* C17 witness: a call rejected after three failed attempts.
C17_Witness ==
    /\ retryCall.status = "rejected"
    /\ retryCall.fnCalls = 3
    /\ retryCall.err = Err(3)

\* get(a) leads to a construction of b: a's definition declares b, or a's
\* factory calls get(b), and b is neither set nor cached.
Unresolved(n) == ~HasKey(dependencies, n) /\ ~HasKey(singletons, n)
FactoryGets(a, b) ==
    \/ definitions[a].factory = "object" /\ InSeq(b, definitions[a].deps)
    \/ definitions[a].factory = "locator" /\ b = Peer(a)
SyncEdge(a, b) ==
    /\ definitions[a] # NoDef
    /\ Unresolved(b)
    /\ Declares(a, b) \/ FactoryGets(a, b)

RECURSIVE SyncReachesIn(_, _, _)
\* b is reached from a in at most k steps of SyncEdge
SyncReachesIn(a, b, k) ==
    \/ SyncEdge(a, b)
    \/ k > 1 /\ \E c \in Names : SyncEdge(a, c) /\ SyncReachesIn(c, b, k - 1)

\* n is on a cycle of lazy or transient definitions, none of them resolved.
LazyOrTransient(n) ==
    definitions[n] # NoDef /\ (definitions[n].lazy \/ ~definitions[n].singleton)
OnSyncCycle(n) ==
    /\ Unresolved(n)
    /\ LazyOrTransient(n)
    /\ SyncReachesIn(n, n, Cardinality(Names))
    /\ \A m \in Names :
          SyncReachesIn(n, m, Cardinality(Names))
          /\ SyncReachesIn(m, n, Cardinality(Names)) => LazyOrTransient(m)

\* C18: when the lazy or transient definitions of unresolved names form a
\* cycle, through declared dependencies or through factories that call get(),
\* get(name) on a name of the cycle ends by throwing the circular-dependency
\* error, which names a name of the cycle; no factory result is cached on the
\* way and the set of names under construction is left as it was.
C18_SyncCycle ==
    \A n \in Names :
        OnSyncCycle(n) =>
            /\ ~get(Store, n).ok
            /\ get(Store, n).err.kind = "CircularDependency"
            /\ OnSyncCycle(get(Store, n).err.name)
            /\ get(Store, n).st.initializing = initializing
            /\ get(Store, n).st.singletons = singletons

\* C18 witness: a cycle that goes through a factory calling get() on a name it
\* did not declare and through a declared dependency; get() throws on either
\* name.
C18_Witness ==
    /\ OnSyncCycle("a")
    /\ definitions["a"].factory = "locator"
    /\ definitions["a"].deps = <<>>
    /\ Declares("b", "a")
    /\ get(Store, "a").err.kind = "CircularDependency"
    /\ get(Store, "b").err.kind = "CircularDependency"

\* A is a non-lazy definition that declares L, a lazy definition that declares
\* A, and neither name is set or cached.
LazyCycle(A, L) ==
    /\ NonLazy(A) /\ Declares(A, L)
    /\ definitions[L].lazy /\ Declares(L, A)
    /\ Unresolved(A) /\ Unresolved(L)

\* C19: an initialize pass over a non-lazy definition A that declares a lazy L
\* which declares A does not complete: from its first block on it carries the
\* circular-dependency error raised when the construction of A or L is entered
\* a second time, and it rejects with that error and leaves the container
\* uninitialized.
C19_LazyCycle ==
    \A t \in TaskIds : \A A \in Names, L \in Names :
        HeldPass(t) /\ tasks[t].steady /\ LazyCycle(A, L) =>
            /\ ~initialized
            /\ tasks[t].status # "resolved"
            /\ tasks[t].status = "pending"
                  => tasks[t].ret.err \in {Error("CircularDependency", n) : n \in {A, L}}
            /\ tasks[t].status = "rejected"
                  => tasks[t].err \in {Error("CircularDependency", n) : n \in {A, L}}

\* C19 witness: the pass has rejected with the circular-dependency error.
C19_Witness ==
    \E t \in TaskIds : \E A \in Names, L \in Names :
        /\ HeldPass(t) /\ tasks[t].steady /\ LazyCycle(A, L)
        /\ tasks[t].status = "rejected"
        /\ tasks[t].err = Error("CircularDependency", A)

\* What a synchronous call returns or throws.
Outcome(r) == <<r.ok, r.val, r.err>>

\* The store with nothing cached for name.
Uncached(name) == [Store EXCEPT !.singletons[name] = NoVal]

RECURSIVE complete(_)
\* An asynchronous call runs on, nothing else running in between, until its
\* promise settles.
complete(r) ==
    IF r.task.status = "pending" THEN complete(resume(r.st, r.task)) ELSE r

\* Every registered factory is synchronous.
AllSynchronous ==
    \A n \in Names : definitions[n].factory \in {"none", "object", "throws"}

\* The synchronous call that ended as g and the asynchronous call that ended
\* as a have the same outcome and leave the same singleton cache.
SameOutcome(g, a) ==
    /\ g.ok <=> a.task.status = "resolved"
    /\ g.ok => g.val = a.task.val
    /\ g.st.singletons = a.st.singletons

\* C21 (as the claim states it; the code violates it): when every factory is
\* synchronous, get(name) and getAsync(name) made from the same state have the
\* same outcome (the same value, or an error in both cases) and leave the same
\* singleton cache.
C21_GetAsyncAsGet ==
    \A n \in Names :
        AllSynchronous => SameOutcome(get(Store, n), complete(getAsync(Store, n)))

\* The order _doInitialize constructs in, computed from the present definitions.
SortedNow == topologicalSort(nonLazyDeps).result

\* q is what is left of s after some of its first elements were taken.
IsSuffix(q, s) ==
    /\ Len(q) <= Len(s)
    /\ q = SubSeq(s, Len(s) - Len(q) + 1, Len(s))

\* Task t awaits the promise a factory returned.
AwaitsFactory(t) ==
    /\ tasks[t].status = "pending"
    /\ tasks[t].stack # <<>>
    /\ tasks[t].ret.state = "none"

Asynchronous(n) == definitions[n].factory \in {"promise", "rejects"}

\* No asynchronous call is suspended.
NonePending == \A t \in TaskIds : tasks[t].status # "pending"

\* get(n) ended as r by throwing the sync/async-mismatch error: the factory
\* named in the error returns a promise and was invoked once, nothing was
\* stored for that name, and the in-flight set is as it was before the call.
MismatchThrown(r) ==
    /\ Asynchronous(r.err.name)
    /\ r.st.calls[r.err.name] = calls[r.err.name] + 1
    /\ r.st.singletons[r.err.name] = singletons[r.err.name]
    /\ ~HasKey(r.st.singletons, r.err.name)
    /\ r.st.initializing = initializing
    /\ NonePending => r.st.initializing = {}

\* C23: get(name) on a lazy-singleton or transient name that is neither set nor
\* cached nor under construction, has no dependency to construct first and
\* whose factory returns a promise throws the sync/async-mismatch error for
\* name; and whenever get() throws that error, for name or for a dependency it
\* constructs, the promise is not cached and the in-flight set is left as it
\* was (empty when no asynchronous call is suspended).
C23_AsyncMisuse ==
    \A n \in Names :
        /\ get(Store, n).err.kind = "SyncAsyncMismatch"
              => MismatchThrown(get(Store, n))
        /\ /\ Unresolved(n) /\ LazyOrTransient(n) /\ Asynchronous(n)
           /\ n \notin initializing
           /\ \A i \in 1..Len(definitions[n].deps) :
                 ~mustCreate(Store, definitions[n].deps[i])
           => get(Store, n).err = Error("SyncAsyncMismatch", n)

\* C23 witness: the asynchronous factory of a lazy singleton was invoked, by a
\* get() that threw the mismatch error, and nothing is cached for the name.
C23_Witness ==
    \E n \in Names :
        /\ definitions[n].singleton /\ definitions[n].lazy /\ Asynchronous(n)
        /\ calls[n] >= 1
        /\ Unresolved(n)
        /\ NonePending
        /\ initializing = {}
        /\ get(Store, n).err = Error("SyncAsyncMismatch", n)

\* Task t is an initialize pass that clear() interrupted: it is suspended (on
\* a factory's promise at first, then on its own awaits) and the container no
\* longer holds its promise.
Interrupted(t) ==
    /\ tasks[t].kind = "init"
    /\ tasks[t].status = "pending"
    /\ initializationPromise # t

\* Nothing is registered and no value is set.
NothingRegistered ==
    \A n \in Names : definitions[n] = NoDef /\ ~HasKey(dependencies, n)

\* C24 (as the claim states it; the code violates it): when a pass that clear()
\* interrupted runs on, with nothing registered or set since, the singleton
\* cache stays empty and the container stays uninitialized.
C24_ClearDuringInitialize ==
    [][\A t \in TaskIds :
          Interrupted(t) /\ NothingRegistered /\ tasks'[t] # tasks[t] =>
              /\ \A n \in Names : ~HasKey(singletons', n)
              /\ ~initialized'
      ]_vars

\* The position of name in the sequence s that contains it.
Position(name, s) == CHOOSE i \in 1..Len(s) : s[i] = name

RECURSIVE BatchReachesIn(_, _, _)
\* b is reached from a in at most k steps of NonLazyEdge, among all the names
\* registered
BatchReachesIn(a, b, k) ==
    \/ NonLazyEdge(a, b)
    \/ k > 1 /\ \E c \in DOMAIN definitions :
                    NonLazyEdge(a, c) /\ BatchReachesIn(c, b, k - 1)
BatchReaches(a, b) == BatchReachesIn(a, b, Cardinality(DOMAIN definitions))

RECURSIVE PathIn(_, _, _)
\* b is reached from a in at most k steps of Declares
PathIn(a, b, k) ==
    \/ Declares(a, b)
    \/ k > 1 /\ \E c \in DOMAIN definitions : Declares(a, c) /\ PathIn(c, b, k - 1)
\* There is a dependency path between a and b, one way or the other.
PathBetween(a, b) ==
    \/ PathIn(a, b, Cardinality(DOMAIN definitions))
    \/ PathIn(b, a, Cardinality(DOMAIN definitions))

\* The sorted order holds every non-lazy registered name exactly once.
EachOnce(sorted) ==
    /\ \A n \in DOMAIN definitions : NonLazy(n) <=> InSeq(n, sorted)
    /\ \A i, j \in 1..Len(sorted) : sorted[i] = sorted[j] => i = j

\* C25 (as the claim states it): the order computed by initialize() holds every
\* non-lazy registered name exactly once, and two names with no dependency
\* path between them appear in their registration order.
C25_TieBreak_Original ==
    topologicalSort(nonLazyDeps).err = NoErr =>
        /\ EachOnce(SortedNow)
        /\ \A x, y \in DOMAIN definitions :
              /\ InSeq(x, SortedNow) /\ InSeq(y, SortedNow)
              /\ ~PathBetween(x, y)
              /\ Position(x, defOrder) < Position(y, defOrder)
              => Position(x, SortedNow) < Position(y, SortedNow)

\* C25 (amended): the order computed by initialize() holds every non-lazy
\* registered name exactly once, with every declared non-lazy dependency before
\* its dependent; a name y comes before a name x that was registered earlier
\* only when y is reached, through declared non-lazy dependencies, from x or
\* from a name registered before x.
C25_TieBreak ==
    topologicalSort(nonLazyDeps).err = NoErr =>
        /\ EachOnce(SortedNow)
        /\ \A x, y \in DOMAIN definitions :
              NonLazyEdge(x, y) /\ x # y
              => Position(y, SortedNow) < Position(x, SortedNow)
        /\ \A x, y \in DOMAIN definitions :
              /\ InSeq(x, SortedNow) /\ InSeq(y, SortedNow)
              /\ Position(x, defOrder) < Position(y, defOrder)
              /\ Position(y, SortedNow) < Position(x, SortedNow)
              => \E z \in DOMAIN definitions :
                    /\ InSeq(z, SortedNow)
                    /\ Position(z, defOrder) <= Position(x, defOrder)
                    /\ BatchReaches(z, y)

\* C25 witness: a pass has constructed three names, the last registered first
\* because the first registered declares it, ahead of the second registered,
\* with which it has no dependency path.
C25_Witness ==
    /\ defOrder = <<"a", "b", "c">>
    /\ SortedNow = <<"c", "a", "b">>
    /\ ~PathBetween("b", "c")
    /\ initialized
    /\ \A n \in DOMAIN definitions : HasKey(singletons, n) /\ calls[n] = 1

\* C26 (as the claim states it): in an initialized container, a non-lazy
\* singleton that is neither set nor cached stays so, get() throwing the
\* not-found-after-initialization error, across every step that is not a step
\* of an asynchronous call (getAsync) or a setValue().
C26_PostInit_Original ==
    [][\A n \in Names :
          /\ initialized /\ NonLazySingleton(n) /\ Unresolved(n)
          /\ initialized' /\ definitions' = definitions
          /\ tasks' = tasks /\ dependencies' = dependencies
          => (get(Store, n) = Fail(Store, "PostInitMissing", n))'
      ]_vars

\* C26 (amended): in an initialized container, for a non-lazy singleton that is
\* neither set nor cached, get() throws the not-found-after-initialization
\* error and changes nothing, and initialize() starts no pass and changes
\* nothing.  The name becomes resolved only by a step that sets its value or
\* invokes its factory: setValue(), getAsync(), or a get()/getAsync() of
\* another name that declares it.
C26_PostInit ==
    [][\A n \in Names :
          initialized /\ NonLazySingleton(n) /\ Unresolved(n) =>
              /\ get(Store, n) = Fail(Store, "PostInitMissing", n)
              /\ ~initialize(Store, OneAtATime).starts
              /\ initialize(Store, OneAtATime).st = Store
              /\ ~Unresolved(n)' /\ definitions' = definitions
                    => \/ HasKey(dependencies', n)
                       \/ calls'[n] = calls[n] + 1
                       \/ \E t \in TaskIds : /\ tasks[t].status = "pending"
                                             /\ tasks'[t] # tasks[t]
      ]_vars

\* C26 witness: a non-lazy singleton registered in an initialized container,
\* unresolved, for which get() throws the not-found-after-initialization error.
C26_Witness ==
    \E n \in Names :
        /\ initialized /\ NonLazySingleton(n) /\ Unresolved(n)
        /\ calls[n] = 0
        /\ get(Store, n) = Fail(Store, "PostInitMissing", n)

\* The onRetry calls made so far by the retry() call, in order.
OnRetryLog == SelectSeq(retryCall.log, LAMBDA e : e[1] = "onRetry")

\* The number of onRetry calls due: one for each failed attempt that another
\* attempt follows or will follow.
OnRetryDue ==
    CASE retryCall.status = "sleeping" -> retryCall.fnCalls
      [] retryCall.status \in {"awaitFn", "resolved"} -> retryCall.fnCalls - 1
      [] OTHER -> IF retryCall.maxAttempts = 0 THEN 0 ELSE retryCall.maxAttempts - 1

\* C27: a retry() call given an onRetry callback invokes it exactly once after
\* each failed attempt that another attempt follows: right after the fn()
\* invocation of that attempt, with the attempt's number and its error, and
\* before the next fn() invocation; never after the last attempt allowed and
\* never after a success.
C27_OnRetry ==
    retryCall.status # "idle" /\ retryCall.onRetry =>
        /\ Len(OnRetryLog) = OnRetryDue
        /\ \A i \in 1..Len(OnRetryLog) : OnRetryLog[i] = <<"onRetry", i, Err(i)>>
        /\ \A i \in 1..Len(retryCall.log) :
              /\ retryCall.log[i][1] = "onRetry"
                    => /\ i > 1
                       /\ retryCall.log[i - 1] = <<"fn", retryCall.log[i][2], Undefined>>
                       /\ retryCall.log[i][2] < retryCall.maxAttempts
              /\ retryCall.log[i][1] = "fn" /\ i > 1
                    => retryCall.log[i - 1][1] = "onRetry"

\* C27 witness: three attempts failed; onRetry was called after the first and
\* after the second, not after the third.
C27_Witness ==
    /\ retryCall.status = "rejected"
    /\ retryCall.onRetry
    /\ retryCall.log = << <<"fn", 1, Undefined>>, <<"onRetry", 1, Err(1)>>,
                          <<"fn", 2, Undefined>>, <<"onRetry", 2, Err(2)>>,
                          <<"fn", 3, Undefined>> >>

\* The declared dependencies form a cycle.
DeclaredCycle == \E n \in Names : DeclaresIn(n, n, Cardinality(Names))

\* The asynchronous call t carries or has rejected with the
\* circular-dependency error.
ReportsCycle(t) ==
    \/ tasks[t].ret.err.kind = "CircularDependency"
    \/ tasks[t].err.kind = "CircularDependency"

\* C28 (as the claim states it; the code violates it): an asynchronous call,
\* with no register() or clear() since it started, reports a circular
\* dependency only when the declared dependencies form a cycle.
C28_NoFalseCycle ==
    \A t \in TaskIds :
        tasks[t].steady /\ ReportsCycle(t) => DeclaredCycle

\* a's construction asks for b: a declares b or a's factory gets b.
AsksFor(a, b) == definitions[a] # NoDef /\ (Declares(a, b) \/ FactoryGets(a, b))

RECURSIVE AsksForIn(_, _, _)
\* b is reached from a in at most k steps of AsksFor
AsksForIn(a, b, k) ==
    \/ AsksFor(a, b)
    \/ k > 1 /\ \E c \in Names : AsksFor(a, c) /\ AsksForIn(c, b, k - 1)

\* The registered graph really contains a cycle.
RealCycle == \E n \in Names : AsksForIn(n, n, Cardinality(Names))

\* C29: whenever no asynchronous call is suspended (a get() never is), the
\* in-flight set is empty; a get() made then leaves it empty and reports a
\* circular dependency only if the registered graph contains a cycle, whatever
\* resolutions failed before.
C29_InFlightBalanced ==
    NonePending =>
        /\ initializing = {}
        /\ \A n \in Names :
              /\ get(Store, n).st.initializing = {}
              /\ get(Store, n).err.kind = "CircularDependency" => RealCycle

\* C29 witness: the factory of a name has thrown, no call is suspended, and a
\* new get() of the name fails with the factory's error again.
C29_Witness ==
    \E n \in Names :
        /\ definitions[n].factory = "throws"
        /\ calls[n] >= 1
        /\ NonePending
        /\ initializing = {}
        /\ get(Store, n).err = Error("FactoryError", n)

\* The errors of the SDK that request throws.
TypedErrors ==
    {"AuthenticationError", "RateLimitError", "TimeoutError", "NetworkError"}

\* C30 (as the claim states it; the code violates it): a request that has
\* settled has invoked the transport at least once, and when it threw, it threw
\* one of the typed SDK errors.
C30_TypedFailures ==
    request.status \in {"returned", "threw"} =>
        /\ retryCall.fnCalls >= 1
        /\ request.status = "threw" => request.error \in TypedErrors

====
